---- MODULE Spec2Model ----
(***************************************************************************)
(* A model of the milling pipeline of tspipe:                              *)
(*   - MillingDataPrep (src/src/data/data_prep_utils.py): the label        *)
(*     catalog, create_labels.tool_state, create_data_array and            *)
(*     create_xy_arrays;                                                   *)
(*   - scale_data and calculate_scores (src/src/models/utils.py);          *)
(*   - kfold_cv (src/src/models/train.py).                                 *)
(* Each subsystem has its own specification over the shared variables; the *)
(* variables of the other subsystems stay at their initial values.         *)
(***************************************************************************)
EXTENDS Integers, Sequences, FiniteSets, TLC

\* ------------------------------------------------------------------ bounds
\* number of rows of the label table (the recording has 167 cuts)
MaxCuts == 2
\* samples per cut of the recording (9000 in the recording)
MaxCutLen == 5
\* largest window_start of a label row
MaxStart == 1
\* largest window_size and stride passed to the constructor
MaxWindow == 3
MaxStride == 3
\* largest wear measurement VB, in hundredths of a millimetre
MaxVB == 100
\* rows of the train and of the test matrix handed to scale_data, and the
\* largest feature value
MaxTrainRows == 3
MaxTestRows == 1
MaxFeature == 2
\* groups (cuts) of the data frame handed to kfold_cv, its rows, and n_splits
MaxGroups == 4
MaxRows == 5
MaxSplits == 2
\* collation: folds collated, and PR-AUC values in hundredths
MaxFolds == 3
MaxScore == 2
\* resampling: rows of a class in the data set handed to under_over_sampler,
\* and rows of a class the cleaning step of a hybrid sampler removes
MaxClassRows == 7
MaxCleaned == 1

\* ------------------------------------------------------- program constants
\* the channel count create_data_array compares a window's shape with
NumChannels == 6
\* the sampling frequency (Hz) that turns a sample index into a time
SampleRate == 250
\* the wear limits of tool_state, 0.2 mm and 0.7 mm, in hundredths of a millimetre
HealthyLimit == 20
DegradedLimit == 70
\* k_neighbors of SMOTE and the samplers built on it, left at its default
KNeighbors == 5

\* --------------------------------------------------------------- helpers
\* None as the value of a variable that is not bound yet
None == "None"
\* an optional value: <<>> when it is missing (None, NaN), <<v>> when it is v
Missing == <<>>
Some(v) == <<v>>

Min(a, b) == IF a <= b THEN a ELSE b
Max(a, b) == IF a >= b THEN a ELSE b

\* Python's s[a:b] for 0 <= a, 0 <= b over a sequence (indices are 0-based,
\* both ends are clamped to the length, an inverted range is empty)
PySlice(s, a, b) == SubSeq(s, Min(a, Len(s)) + 1, Min(b, Len(s)))

\* a string is the sequence of its characters
DigitChars == <<"0", "1", "2", "3", "4", "5", "6", "7", "8", "9">>

\* str(n) of a natural number
RECURSIVE Str(_)
Str(n) == IF n < 10 THEN <<DigitChars[n + 1]>> ELSE Str(n \div 10) \o <<DigitChars[(n % 10) + 1]>>

\* int(s) of a string of digits
RECURSIVE ParseInt(_)
ParseInt(s) ==
    LET d == CHOOSE v \in 0..9 : DigitChars[v + 1] = s[Len(s)]
    IN  IF Len(s) = 1 THEN d ELSE 10 * ParseInt(SubSeq(s, 1, Len(s) - 1)) + d

\* s.split("_")[0]: what comes before the first separator
RECURSIVE SplitFirst(_)
SplitFirst(s) ==
    IF s = <<>> \/ Head(s) = "_" THEN <<>> ELSE <<Head(s)>> \o SplitFirst(Tail(s))

\* the elements of a sequence, and the concatenation of a sequence of sequences
Range(s) == {s[k] : k \in 1..Len(s)}

RECURSIVE Flatten(_)
Flatten(ss) == IF ss = <<>> THEN <<>> ELSE Head(ss) \o Flatten(Tail(ss))

\* the sequences over S of length lo..hi
SeqsOf(S, lo, hi) == UNION {[1..n -> S] : n \in lo..hi}

RECURSIVE SumSeq(_)
SumSeq(s) == IF s = <<>> THEN 0 ELSE Head(s) + SumSeq(Tail(s))

Abs(a) == IF a < 0 THEN 0 - a ELSE a
Sgn(a) == IF a < 0 THEN 0 - 1 ELSE IF a = 0 THEN 0 ELSE 1

RECURSIVE GCD(_, _)
GCD(a, b) == IF b = 0 THEN a ELSE GCD(b, a % b)

\* the fraction n/d (d > 0) in lowest terms
Frac(n, d) == LET g == GCD(Abs(n), d) IN <<n \div g, d \div g>>

\* A matrix entry is a real number sgn * sqrt(sq[1] / sq[2]): the form keeps
\* integers, fractions and quotients by a standard deviation exact.
\* n / d, and n / sqrt(d2)
RealOfFrac(n, d) == [sgn |-> Sgn(n), sq |-> Frac(n * n, d * d)]
RealOverSqrt(n, d2) == [sgn |-> Sgn(n), sq |-> Frac(n * n, d2)]
RealOfInt(n) == [sgn |-> Sgn(n), sq |-> <<n * n, 1>>]

VARIABLES
    \* ---- MillingDataPrep
    df_labels,      \* the catalog: the cut_no column of self.df_labels, in row order
    window_size,    \* self.window_size
    stride,         \* self.stride
    signal_names,   \* self.signal_names: the names of the signal channels
    op,             \* the method running: None, "create_data_array", "create_xy_arrays"
                    \* (called on its own or from line 375 of create_xy_dataframe)
    cda_pc,         \* position inside create_data_array
    cut_no,         \* its argument
    row,            \* the label row of cut_no: window_start, window_end, tool_class
    cut_array,      \* the cut sliced to its valid range
    i,              \* the loop index
    sub_cut_list, sub_cut_id_list, sub_cut_label_list,
    cda_ret,        \* the tuple create_data_array returned
    xy_pc,          \* position inside create_xy_arrays
    xy_k,           \* index (1-based) of the catalog row create_xy_arrays is at
    x, y_labels_ids_times,   \* the lists create_xy_arrays appends to
    xy_ret,         \* the pair create_xy_arrays returned
    error,          \* the exception that left the invoked method, or None
    df_pc,          \* position inside create_xy_dataframe
    xy_df,          \* the frame create_xy_dataframe returned: its columns and its rows
    \* ---- create_labels.tool_state
    vb,             \* the wear measurement of a cut (Missing when it is null)
    tool_class,     \* what tool_state returned for it
    label_pc,
    \* ---- scale_data, called twice on one x_train
    sc_x_train, sc_x_test, sc_x_test2, sc_method,
    sc_ret, sc_ret2,  \* what each call returned: x_train, x_test, scaler
    sc_pc,
    \* ---- kfold_cv
    df,                 \* the data frame: rows of case, tool_class, y and one feature
    uo_method, scaler_method, imbalance_ratio,
    stratification_grouping_col,
    grouping_is_label_object,  \* the grouping name is the very string object y_label_col is
    y_label_col, n_splits,
    estimators,         \* the classifier objects: what each was last fitted on
    clone_clf,          \* the object clone(clf) returned
    cv_pc,
    branch,             \* "group" (lines 66-106) or "row" (lines 110-146)
    splits,             \* the (train_index, test_index) pairs skfolds.split yields
    fold,               \* the folds completed so far
    score_lists,        \* precisions_list .. f1_list
    fold_log,           \* per fold: what was partitioned, fitted and scored
    result_dict,
    cv_error,
    \* ---- MillingDataPrep(...) being constructed, and create_labels
    ctor_args,          \* the arguments of the constructor call
    ctor_pc,
    ctor_error,         \* the exception that left the constructor, or None
    has_df_labels,      \* the object has the attribute df_labels
    loads,              \* the files read so far, in order
    labels_ret,         \* what create_labels returned (its columns and rows), if it was called
    \* ---- collate_scores_binary_classification and get_model_metrics_df
    scores_list,        \* the per-fold score dictionaries handed to the collation
    model_metrics_dict, \* what the collation returned
    df_m,               \* the one-row frame get_model_metrics_df returned
    mm_pc,
    mm_error,
    \* ---- under_over_sampler called on its own
    rs_y,               \* the labels y of the data set handed in
    rs_method, rs_ratio,
    rs_ret,             \* Counter(y_resampled): the rows of each class in what came back
    rs_pc,
    rs_error

segVars == <<df_labels, window_size, stride, signal_names, op, cda_pc, cut_no, row,
             cut_array, i, sub_cut_list, sub_cut_id_list, sub_cut_label_list, cda_ret,
             xy_pc, xy_k, x, y_labels_ids_times, xy_ret, error>>

dfVars == <<df_pc, xy_df>>

labelVars == <<vb, tool_class, label_pc>>

scaleVars == <<sc_x_train, sc_x_test, sc_x_test2, sc_method, sc_ret, sc_ret2, sc_pc>>

cvVars == <<df, uo_method, scaler_method, imbalance_ratio, stratification_grouping_col,
            grouping_is_label_object, y_label_col, n_splits, estimators, clone_clf, cv_pc,
            branch, splits, fold, score_lists, fold_log, result_dict, cv_error>>

ctorVars == <<ctor_args, ctor_pc, ctor_error, has_df_labels, loads, labels_ret>>

metricVars == <<scores_list, model_metrics_dict, df_m, mm_pc, mm_error>>

resampleVars == <<rs_y, rs_method, rs_ratio, rs_ret, rs_pc, rs_error>>

utilVars == <<labelVars, scaleVars, cvVars, metricVars, resampleVars>>

vars == <<segVars, dfVars, ctorVars, utilVars>>

\* what the actions of one subsystem leave alone (create_data_array and
\* create_xy_arrays never touch the frame of create_xy_dataframe)
nonSegVars == <<dfVars, ctorVars, utilVars>>
nonLabelVars == <<segVars, dfVars, ctorVars, scaleVars, cvVars, metricVars, resampleVars>>
nonScaleVars == <<segVars, dfVars, ctorVars, labelVars, cvVars, metricVars, resampleVars>>
nonCVVars == <<segVars, dfVars, ctorVars, labelVars, scaleVars, metricVars, resampleVars>>
nonMetricVars == <<segVars, dfVars, ctorVars, labelVars, scaleVars, cvVars, resampleVars>>
nonResampleVars == <<segVars, dfVars, ctorVars, labelVars, scaleVars, cvVars, metricVars>>

\* a subsystem that the specification at hand does not run
IdleSeg ==
    /\ df_labels = <<>> /\ window_size = 1 /\ stride = 1 /\ signal_names = <<>>
    /\ op = None /\ cda_pc = "idle" /\ cut_no = None /\ row = None /\ cut_array = None
    /\ i = 0 /\ sub_cut_list = <<>> /\ sub_cut_id_list = <<>> /\ sub_cut_label_list = <<>>
    /\ cda_ret = None /\ xy_pc = "idle" /\ xy_k = 0 /\ x = <<>>
    /\ y_labels_ids_times = <<>> /\ xy_ret = None /\ error = None
    /\ df_pc = "idle" /\ xy_df = None

IdleCV ==
    /\ df = <<>> /\ uo_method = None /\ scaler_method = None /\ imbalance_ratio = <<1, 1>>
    /\ stratification_grouping_col = None /\ grouping_is_label_object = FALSE
    /\ y_label_col = "y" /\ n_splits = 2 /\ estimators = <<>> /\ clone_clf = 0
    /\ cv_pc = "off" /\ branch = None /\ splits = <<>> /\ fold = 0
    /\ score_lists = <<>> /\ fold_log = <<>> /\ result_dict = <<>> /\ cv_error = None

IdleLabel == vb = Missing /\ tool_class = Missing /\ label_pc = "off"

IdleCtor ==
    /\ ctor_args = None /\ ctor_pc = "off" /\ ctor_error = None /\ has_df_labels = TRUE
    /\ loads = <<>> /\ labels_ret = Missing

IdleMetrics ==
    /\ scores_list = <<>> /\ model_metrics_dict = None /\ df_m = None
    /\ mm_pc = "off" /\ mm_error = None

IdleResample ==
    /\ rs_y = <<>> /\ rs_method = None /\ rs_ratio = <<1, 1>> /\ rs_ret = None
    /\ rs_pc = "off" /\ rs_error = None

IdleScale ==
    /\ sc_x_train = <<>> /\ sc_x_test = <<>> /\ sc_x_test2 = <<>> /\ sc_method = None
    /\ sc_ret = None /\ sc_ret2 = None /\ sc_pc = "off"

\* ================================================== MillingDataPrep.__init__
\* self.data.dtype.names: the seven metadata fields of a cut, then its six signals
FieldNames == <<"case", "run", "VB", "time", "DOC", "feed", "material",
                "smcAC", "smcDC", "vib_table", "vib_spindle", "AE_table", "AE_spindle">>

\* s[::-1]
Reverse(s) == [k \in 1..Len(s) |-> s[Len(s) + 1 - k]]

\* line 185: self.field_names[7:][::-1]
SignalNames == Reverse(SubSeq(FieldNames, 8, Len(FieldNames)))

ToolClasses == {0, 1, 2}

\* the label table read from the csv: row k (0-based) holds cut_no k
LabelTable(n) == [k \in 1..n |-> k - 1]

\* df.drop(cut_drop_list) removes the rows whose index label is listed;
\* reset_index(drop=True) renumbers what is left
RECURSIVE DropByIndex(_, _, _)
DropByIndex(table, drop, k) ==
    IF k > Len(table) THEN <<>>
    ELSE (IF (k - 1) \in drop THEN <<>> ELSE <<table[k]>>)
         \o DropByIndex(table, drop, k + 1)

DropRows(table, drop) ==
    IF drop = Missing THEN table ELSE DropByIndex(table, drop[1], 1)

InitSeg ==
    /\ \E n \in 1..MaxCuts :
         \E drop \in {Missing} \cup {Some(d) : d \in SUBSET (0..(n - 1))} :
            df_labels = DropRows(LabelTable(n), drop)
    /\ window_size \in 1..MaxWindow
    /\ stride \in 1..MaxStride
    /\ signal_names = SignalNames
    /\ op = None
    /\ cda_pc = "idle"
    /\ cut_no = None
    /\ row = None
    /\ cut_array = None
    /\ i = 0
    /\ sub_cut_list = <<>>
    /\ sub_cut_id_list = <<>>
    /\ sub_cut_label_list = <<>>
    /\ cda_ret = None
    /\ xy_pc = "idle"
    /\ xy_k = 0
    /\ x = <<>>
    /\ y_labels_ids_times = <<>>
    /\ xy_ret = None
    /\ error = None
    /\ df_pc = "idle"
    /\ xy_df = None
    /\ IdleLabel
    /\ IdleScale
    /\ IdleCV
    /\ IdleCtor
    /\ IdleMetrics
    /\ IdleResample

\* ============================================ MillingDataPrep.create_data_array
\* the rows a label table can hold for a cut: the valid range and the class
\* (tool_class is missing, a NaN, where the wear measurement was null)
\* The valid ranges tried start at the first sample or MaxStart samples in, and
\* end at samples that give every length from 0 to MaxCutLen.
RangeStarts == {0, MaxStart}
RangeEnds == {0, 2, MaxCutLen - 1, MaxCutLen}

LabelRows ==
    [window_start : RangeStarts, window_end : RangeEnds,
     tool_class : {Some(c) : c \in ToolClasses} \cup {Missing}]

\* the cut as an array of 9000 samples by len(signal_names) channels; a sample
\* is named by its index in the recording
CutArray == [rows |-> [k \in 1..MaxCutLen |-> k - 1], cols |-> Len(signal_names)]

\* cut_array[start:end, :]
SliceRows(a, lo, hi) == [rows |-> PySlice(a.rows, lo, hi), cols |-> a.cols]

Shape(a) == <<Len(a.rows), a.cols>>

\* (a scan that steps by one sample whatever the stride)
WindowedSignalUnitStride(a, k) == SliceRows(a, k, k + window_size)

\* cut_array[i * stride : i * stride + window_size]
WindowedSignal(a, k) == SliceRows(a, k * stride, k * stride + window_size)

\* (a shape test that lets a shorter slice through)
ProperLengthNonEmpty(w) == Len(w.rows) > 0 /\ w.cols = NumChannels

\* windowed_signal.shape == (self.window_size, 6)
ProperLength(w) == Shape(w) = <<window_size, NumChannels>>

\* a numbering of the windows that starts at one
SubCutIdOneBased(c, k) == Str(c) \o <<"_">> \o Str(k + 1)

\* f"{cut_no}_{i}"
SubCutId(c, k) == Str(c) \o <<"_">> \o Str(k)

\* (an entry without the assertion: the row lookup of an absent cut fails)
CDA_EnterUnchecked(c) ==
    /\ cut_no' = c
    /\ IF c \notin Range(df_labels)
       THEN /\ cda_pc' = "raised"
            /\ error' = "IndexError"
            /\ UNCHANGED <<row, cut_array>>
       ELSE \E r \in LabelRows :
              /\ row' = r
              /\ cut_array' = SliceRows(CutArray, r.window_start, r.window_end)
              /\ cda_pc' = "loop"
              /\ error' = None
    /\ i' = 0
    /\ sub_cut_list' = <<>>
    /\ sub_cut_id_list' = <<>>
    /\ sub_cut_label_list' = <<>>
    /\ cda_ret' = None
    /\ UNCHANGED <<df_labels, window_size, stride, signal_names, nonSegVars>>

\* lines 256-280: the assertion, the cut array, the valid range and the label
CDA_Enter(c) ==
    /\ cut_no' = c
    /\ IF c \notin Range(df_labels)
       THEN /\ cda_pc' = "raised"
            /\ error' = "AssertionError"
            /\ UNCHANGED <<row, cut_array>>
       ELSE \E r \in LabelRows :
              /\ row' = r
              /\ cut_array' = SliceRows(CutArray, r.window_start, r.window_end)
              /\ cda_pc' = "loop"
              /\ error' = None
    /\ i' = 0
    /\ sub_cut_list' = <<>>
    /\ sub_cut_id_list' = <<>>
    /\ sub_cut_label_list' = <<>>
    /\ cda_ret' = None
    /\ UNCHANGED <<df_labels, window_size, stride, signal_names, nonSegVars>>

\* a caller invokes create_data_array(cut_no) on the constructed object
CreateDataArray ==
    /\ op = None
    /\ op' = "create_data_array"
    /\ \E c \in 0..(MaxCuts - 1) : CDA_Enter(c)
    /\ UNCHANGED <<xy_pc, xy_k, x, y_labels_ids_times, xy_ret>>

\* lines 284-297: the window at index i has the proper shape and is appended
CDA_Append ==
    /\ cda_pc = "loop"
    /\ i < Len(cut_array.rows)
    /\ ProperLength(WindowedSignal(cut_array, i))
    /\ row.tool_class # Missing
    /\ sub_cut_list' = Append(sub_cut_list, WindowedSignal(cut_array, i))
    /\ sub_cut_id_list' = Append(sub_cut_id_list, SubCutId(cut_no, i))
    /\ sub_cut_label_list' = Append(sub_cut_label_list, row.tool_class[1])
    /\ i' = i + 1
    /\ UNCHANGED nonSegVars
    /\ UNCHANGED <<df_labels, window_size, stride, signal_names, op, cda_pc, cut_no, row,
                   cut_array, cda_ret, xy_pc, xy_k, x, y_labels_ids_times, xy_ret, error>>

\* (a conversion that turns a missing class into 0 and goes on)
CDA_LabelSubstituted ==
    /\ cda_pc = "loop"
    /\ i < Len(cut_array.rows)
    /\ ProperLength(WindowedSignal(cut_array, i))
    /\ row.tool_class = Missing
    /\ sub_cut_list' = Append(sub_cut_list, WindowedSignal(cut_array, i))
    /\ sub_cut_id_list' = Append(sub_cut_id_list, SubCutId(cut_no, i))
    /\ sub_cut_label_list' = Append(sub_cut_label_list, 0)
    /\ i' = i + 1
    /\ UNCHANGED nonSegVars
    /\ UNCHANGED <<df_labels, window_size, stride, signal_names, op, cda_pc, cut_no, row,
                   cut_array, cda_ret, xy_pc, xy_k, x, y_labels_ids_times, xy_ret, error>>

\* line 297: int(label) of a missing class raises, after the window and its id
\* were appended to their lists
CDA_LabelError ==
    /\ cda_pc = "loop"
    /\ i < Len(cut_array.rows)
    /\ ProperLength(WindowedSignal(cut_array, i))
    /\ row.tool_class = Missing
    /\ sub_cut_list' = Append(sub_cut_list, WindowedSignal(cut_array, i))
    /\ sub_cut_id_list' = Append(sub_cut_id_list, SubCutId(cut_no, i))
    /\ cda_pc' = "raised"
    /\ error' = "ValueError"
    /\ UNCHANGED nonSegVars
    /\ UNCHANGED <<df_labels, window_size, stride, signal_names, op, cut_no, row, cut_array,
                   i, sub_cut_label_list, cda_ret, xy_pc, xy_k, x, y_labels_ids_times, xy_ret>>

\* lines 299-300: the first window that is not of the proper shape ends the scan
CDA_Break ==
    /\ cda_pc = "loop"
    /\ i < Len(cut_array.rows)
    /\ ~ProperLength(WindowedSignal(cut_array, i))
    /\ cda_pc' = "pack"
    /\ UNCHANGED nonSegVars
    /\ UNCHANGED <<df_labels, window_size, stride, signal_names, op, cut_no, row, cut_array,
                   i, sub_cut_list, sub_cut_id_list, sub_cut_label_list, cda_ret,
                   xy_pc, xy_k, x, y_labels_ids_times, xy_ret, error>>

\* line 284: range(cut_array.shape[0]) is exhausted
CDA_Exhausted ==
    /\ cda_pc = "loop"
    /\ i >= Len(cut_array.rows)
    /\ cda_pc' = "pack"
    /\ UNCHANGED nonSegVars
    /\ UNCHANGED <<df_labels, window_size, stride, signal_names, op, cut_no, row, cut_array,
                   i, sub_cut_list, sub_cut_id_list, sub_cut_label_list, cda_ret,
                   xy_pc, xy_k, x, y_labels_ids_times, xy_ret, error>>

\* lines 302-331. np.array([]) has shape (0,), so sub_cut_array.shape[1] raises
\* IndexError when no window was appended; otherwise every list is repeated
\* along the window axis and the tuple is returned
Repeat(v, n) == [k \in 1..n |-> v]

SubCutTimes(nwin, wlen) == Repeat([k \in 1..wlen |-> [num |-> k - 1, den |-> SampleRate]], nwin)

PackResult(windows, ids, labels) ==
    LET wlen == Len(windows[1].rows)
        lab == [w \in 1..Len(labels) |-> Repeat(labels[w], wlen)]
        idm == [w \in 1..Len(ids) |-> Repeat(ids[w], wlen)]
        tim == SubCutTimes(Len(windows), wlen)
    IN  [sub_cut_array |-> windows,
         sub_cut_labels |-> lab,
         sub_cut_ids |-> idm,
         sub_cut_times |-> tim,
         sub_cut_labels_ids_times |->
            [w \in 1..Len(windows) |->
                [k \in 1..wlen |-> <<lab[w][k], idm[w][k], tim[w][k]>>]]]

CDA_Pack ==
    /\ cda_pc = "pack"
    /\ IF sub_cut_list = <<>>
       THEN /\ cda_pc' = "raised"
            /\ error' = "IndexError"
            /\ UNCHANGED cda_ret
       ELSE /\ cda_pc' = "returned"
            /\ cda_ret' = PackResult(sub_cut_list, sub_cut_id_list, sub_cut_label_list)
            /\ UNCHANGED error
    /\ UNCHANGED nonSegVars
    /\ UNCHANGED <<df_labels, window_size, stride, signal_names, op, cut_no, row, cut_array,
                   i, sub_cut_list, sub_cut_id_list, sub_cut_label_list,
                   xy_pc, xy_k, x, y_labels_ids_times, xy_ret>>

\* ============================================= MillingDataPrep.create_xy_arrays
\* a caller invokes create_xy_arrays(); lines 347-351
CreateXYArrays ==
    /\ op = None
    /\ op' = "create_xy_arrays"
    /\ xy_pc' = "iter"
    /\ xy_k' = 1
    /\ x' = <<>>
    /\ y_labels_ids_times' = <<>>
    /\ UNCHANGED nonSegVars
    /\ UNCHANGED <<df_labels, window_size, stride, signal_names, cda_pc, cut_no, row,
                   cut_array, i, sub_cut_list, sub_cut_id_list, sub_cut_label_list, cda_ret,
                   xy_ret, error>>

\* lines 351-358: the next row of the catalog is handed to create_data_array
XY_Call ==
    /\ xy_pc = "iter"
    /\ xy_k <= Len(df_labels)
    /\ xy_pc' = "call"
    /\ CDA_Enter(df_labels[xy_k])
    /\ UNCHANGED <<op, xy_k, x, y_labels_ids_times, xy_ret>>

\* lines 360-361: the cut's windows are appended
XY_Append ==
    /\ xy_pc = "call"
    /\ cda_pc = "returned"
    /\ x' = Append(x, cda_ret.sub_cut_array)
    /\ y_labels_ids_times' = Append(y_labels_ids_times, cda_ret.sub_cut_labels_ids_times)
    /\ xy_k' = xy_k + 1
    /\ xy_pc' = "iter"
    /\ cda_pc' = "idle"
    /\ UNCHANGED nonSegVars
    /\ UNCHANGED <<df_labels, window_size, stride, signal_names, op, cut_no, row, cut_array,
                   i, sub_cut_list, sub_cut_id_list, sub_cut_label_list, cda_ret,
                   xy_ret, error>>

\* an exception of create_data_array is not caught: it leaves create_xy_arrays
XY_Propagate ==
    /\ xy_pc = "call"
    /\ cda_pc = "raised"
    /\ xy_pc' = "raised"
    /\ UNCHANGED nonSegVars
    /\ UNCHANGED <<df_labels, window_size, stride, signal_names, op, cda_pc, cut_no, row,
                   cut_array, i, sub_cut_list, sub_cut_id_list, sub_cut_label_list, cda_ret,
                   xy_k, x, y_labels_ids_times, xy_ret, error>>

\* line 363: np.vstack of the per-cut arrays (it raises on an empty list)
XY_Stack ==
    /\ xy_pc = "iter"
    /\ xy_k > Len(df_labels)
    /\ IF x = <<>>
       THEN /\ xy_pc' = "raised"
            /\ error' = "ValueError"
            /\ UNCHANGED xy_ret
       ELSE /\ xy_pc' = "returned"
            /\ xy_ret' = [x |-> Flatten(x), y |-> Flatten(y_labels_ids_times)]
            /\ UNCHANGED error
    /\ UNCHANGED nonSegVars
    /\ UNCHANGED <<df_labels, window_size, stride, signal_names, op, cda_pc, cut_no, row,
                   cut_array, i, sub_cut_list, sub_cut_id_list, sub_cut_label_list, cda_ret,
                   xy_k, x, y_labels_ids_times>>

\* ========================================== MillingDataPrep.create_xy_dataframe
\* s.lower() of a signal name
Lower(name) ==
    CASE name = "smcAC" -> "smcac"
      [] name = "smcDC" -> "smcdc"
      [] name = "vib_table" -> "vib_table"
      [] name = "vib_spindle" -> "vib_spindle"
      [] name = "AE_table" -> "ae_table"
      [] name = "AE_spindle" -> "ae_spindle"

\* lines 261-267: column c of a cut's array is the signal signal_names[c], so
\* the reading in column c of the sample a.rows[k] is named by both
ChannelValues(a, k) == [c \in 1..a.cols |-> [signal |-> signal_names[c], sample |-> a.rows[k]]]

\* line 378: the channels of each sample are joined with its label, id and
\* time (the join makes strings of them all, so the label is str(label)),
\* and the windows are laid end to end
JoinLabels(y) == <<Str(y[1]), y[2], y[3]>>

XLabelsSampleMajor(xs, ys) ==
    Flatten([k \in 1..Len(xs[1].rows) |->
                [w \in 1..Len(xs) |-> ChannelValues(xs[w], k) \o JoinLabels(ys[w][k])]])

XLabels(xs, ys) ==
    Flatten([w \in 1..Len(xs) |->
                [k \in 1..Len(xs[w].rows) |-> ChannelValues(xs[w], k) \o JoinLabels(ys[w][k])]])

\* lines 381-385
ColNames == [c \in 1..Len(signal_names) |-> Lower(signal_names[c])] \o <<"tool_class", "cut_id", "time">>

\* lines 387-398
ColNamesOrdered == <<"cut_id", "case", "time", "ae_spindle", "ae_table", "vib_spindle",
                     "vib_table", "smcdc", "smcac", "tool_class">>

\* the position of a column name in a list of names
ColumnIndex(names, n) == CHOOSE c \in 1..Len(names) : names[c] = n

\* lines 416-421: the frame takes ColNames as its columns, case is the part
\* of cut_id before the separator, the columns are picked in the order of
\* ColNamesOrdered, and case and tool_class are turned into integers
FrameRow(r) ==
    [n \in Range(ColNamesOrdered) |->
        CASE n = "case" -> ParseInt(SplitFirst(r[ColumnIndex(ColNames, "cut_id")]))
          [] n = "tool_class" -> ParseInt(r[ColumnIndex(ColNames, "tool_class")])
          [] OTHER -> r[ColumnIndex(ColNames, n)]]

\* lines 375-423, after create_xy_arrays (the actions above) has returned to
\* line 375. Picking a column the frame does not have raises KeyError.
CreateXYDataframe ==
    /\ df_pc = "idle"
    /\ xy_pc = "returned"
    /\ LET x_labels == XLabels(xy_ret.x, xy_ret.y)
       IN  IF Range(ColNamesOrdered) \subseteq (Range(ColNames) \cup {"case"})
           THEN /\ df_pc' = "returned"
                /\ xy_df' = [columns |-> ColNamesOrdered,
                             rows |-> [r \in 1..Len(x_labels) |-> FrameRow(x_labels[r])]]
           ELSE /\ df_pc' = "raised"
                /\ UNCHANGED xy_df
    /\ UNCHANGED <<segVars, ctorVars, utilVars>>

\* an exception of create_xy_arrays is not caught at line 375
DF_Propagate ==
    /\ df_pc = "idle"
    /\ xy_pc = "raised"
    /\ df_pc' = "raised"
    /\ UNCHANGED <<xy_df, segVars, ctorVars, utilVars>>

NextSeg ==
    \/ CreateDataArray
    \/ CDA_Append
    \/ CDA_LabelError
    \/ CDA_Break
    \/ CDA_Exhausted
    \/ CDA_Pack
    \/ CreateXYArrays
    \/ XY_Call
    \/ XY_Append
    \/ XY_Propagate
    \/ XY_Stack
    \/ CreateXYDataframe
    \/ DF_Propagate

SpecSeg == InitSeg /\ [][NextSeg]_vars

\* ------------------------------------------------ properties of the segmentation
\* create_data_array has read the label row of its cut
RowRead == cda_pc \in {"loop", "pack", "returned"} \/ (cda_pc = "raised" /\ error # "AssertionError")

\* the length of the valid range [window_start, window_end) of the cut at hand
RangeLen == Max(0, row.window_end - row.window_start)

FullWindow(w) == Len(w.rows) = window_size /\ w.cols = 6

\* C7: every window create_data_array appends or returns, and every window
\* create_xy_arrays collects or returns, has exactly window_size samples and 6
\* channels, whatever the cut, window_size and stride
C7_WindowShape ==
    /\ \A k \in 1..Len(sub_cut_list) : FullWindow(sub_cut_list[k])
    /\ cda_pc = "returned" =>
          \A k \in 1..Len(cda_ret.sub_cut_array) : FullWindow(cda_ret.sub_cut_array[k])
    /\ \A c \in 1..Len(x) : \A k \in 1..Len(x[c]) : FullWindow(x[c][k])
    /\ xy_pc = "returned" => \A k \in 1..Len(xy_ret.x) : FullWindow(xy_ret.x[k])

\* C7 witness: a call returned windows after the scan stopped at a slice that
\* was shorter than window_size but not empty
C7_Witness ==
    /\ cda_pc = "returned"
    /\ Len(cda_ret.sub_cut_array) >= 1
    /\ Len(WindowedSignal(cut_array, i).rows) \in 1..(window_size - 1)

\* the samples [lo, lo + n) of the valid range, by their index in the recording
RangeSamples(lo, n) == [k \in 1..n |-> row.window_start + lo + k - 1]

\* C8: with stride = window_size = W, the scan of a cut whose valid range has
\* length L leaves exactly L div W windows, window k (0-based) holding the
\* samples [W*k, W*k + W) of the valid range, so no two windows share a sample
C8_CountLaw ==
    (/\ cda_pc \in {"pack", "returned"} \/ (cda_pc = "raised" /\ error = "IndexError")
     /\ stride = window_size)
    => /\ Len(sub_cut_list) = RangeLen \div window_size
       /\ \A k \in 1..Len(sub_cut_list) :
             sub_cut_list[k].rows = RangeSamples(window_size * (k - 1), window_size)
       /\ \A k, m \in 1..Len(sub_cut_list) :
             k # m => Range(sub_cut_list[k].rows) \cap Range(sub_cut_list[m].rows) = {}
       /\ cda_pc = "returned" => cda_ret.sub_cut_array = sub_cut_list

\* C8 witness: a call with stride = window_size > 1 returned two or more
\* windows from a range whose length is no multiple of window_size
C8_Witness ==
    /\ cda_pc = "returned"
    /\ stride = window_size
    /\ window_size > 1
    /\ Len(cda_ret.sub_cut_array) >= 2
    /\ RangeLen % window_size # 0

\* C9: on a cut whose valid range is shorter than window_size neither
\* create_data_array nor create_xy_arrays raises: the call returns, with no
\* window for that cut
C9_ShortRangeIsEmptyResult ==
    (RowRead /\ row.tool_class # Missing /\ RangeLen < window_size)
    => /\ cda_pc # "raised"
       /\ xy_pc # "raised"
       /\ cda_pc = "returned" => cda_ret.sub_cut_array = <<>>


\* C11: a cut whose label row has no tool_class never yields a labelled window:
\* create_data_array does not return for it and appends no label, and
\* create_xy_arrays over a catalog that holds it does not return either
C11_MissingLabelFails ==
    (RowRead /\ row.tool_class = Missing)
    => /\ cda_pc # "returned"
       /\ xy_pc # "returned"
       /\ sub_cut_label_list = <<>>
       /\ cda_pc = "raised" => error \in {"ValueError", "IndexError"}

\* C11 witness: create_xy_arrays met a cut without tool_class whose range holds
\* a full window, after it had collected the windows of another cut, and the
\* ValueError of int(label) left it
C11_Witness ==
    /\ xy_pc = "raised"
    /\ cda_pc = "raised"
    /\ error = "ValueError"
    /\ row.tool_class = Missing
    /\ Len(x) >= 1
    /\ Len(sub_cut_list) = 1


\* C13: create_data_array on a cut_no that is not in the catalog fails the
\* assertion before any window is produced, and returns nothing
C13_AbsentCutFails ==
    (cda_pc # "idle" /\ cut_no \notin Range(df_labels))
    => /\ cda_pc = "raised"
       /\ error = "AssertionError"
       /\ sub_cut_list = <<>>
       /\ cda_ret = None

\* C13 witness: the call named a cut that the exclusion list removed from a
\* catalog that still holds a later cut
C13_Witness ==
    /\ cda_pc = "raised"
    /\ error = "AssertionError"
    /\ \E c \in Range(df_labels) : c > cut_no


\* the scan of create_data_array is over
ScanEnded == cda_pc \in {"pack", "returned"} \/ (cda_pc = "raised" /\ error = "IndexError")

\* C20: create_data_array tries i = 0, 1, 2, ... in order, slicing
\* [i*stride, i*stride + window_size) of the valid range, and stops at the
\* first slice that is not full (or when the range is used up). The windows
\* kept carry the ids '{cut_no}_0' .. '{cut_no}_{n-1}' with no gap and no
\* duplicate, window i holds exactly the samples [i*stride, i*stride + W), and
\* n = (L - W) div stride + 1 when the range length L is at least W.
C20_StridedScan ==
    /\ cda_pc = "loop"
       => /\ Len(sub_cut_list) = i
          /\ Len(sub_cut_id_list) = i
    /\ ScanEnded
       => /\ Len(sub_cut_list) =
                IF RangeLen >= window_size THEN ((RangeLen - window_size) \div stride) + 1 ELSE 0
          /\ Len(sub_cut_id_list) = Len(sub_cut_list)
          /\ \A k \in 1..Len(sub_cut_list) :
                /\ sub_cut_list[k].rows = RangeSamples(stride * (k - 1), window_size)
                /\ sub_cut_id_list[k] = Str(cut_no) \o <<"_">> \o Str(k - 1)
          /\ \A k, m \in 1..Len(sub_cut_id_list) :
                k # m => sub_cut_id_list[k] # sub_cut_id_list[m]
          /\ LET n == Len(sub_cut_list)
             IN  n = Len(cut_array.rows) \/ Len(PySlice(cut_array.rows, n * stride, n * stride + window_size)) < window_size
          /\ cda_pc = "returned"
             => /\ cda_ret.sub_cut_array = sub_cut_list
                /\ \A k \in 1..Len(sub_cut_list) :
                      Range(cda_ret.sub_cut_ids[k]) = {sub_cut_id_list[k]}

\* C20 witness: a call with 1 < stride < window_size returned two windows of a
\* later cut that share a sample
C20_Witness ==
    /\ cda_pc = "returned"
    /\ cut_no >= 1
    /\ stride >= 2
    /\ stride < window_size
    /\ Len(cda_ret.sub_cut_array) >= 2
    /\ Range(cda_ret.sub_cut_array[1].rows) \cap Range(cda_ret.sub_cut_array[2].rows) # {}

\* the window index a frame row carries in its cut_id, and its sample index
\* inside the window, which is its time in sample periods
WindowIndexOf(r) == CHOOSE w \in 0..MaxCutLen : r["cut_id"] = SubCutId(r["case"], w)
SampleIndexOf(r) == r["time"].num

\* the catalog position of a cut
CatalogIndex(c) == CHOOSE k \in 1..Len(df_labels) : df_labels[k] = c

\* (cut, window, sample) of row a comes right before that of row b
RowPrecedes(a, b) ==
    LET ka == CatalogIndex(a["case"])
        kb == CatalogIndex(b["case"])
    IN  \/ ka < kb
        \/ ka = kb /\ WindowIndexOf(a) < WindowIndexOf(b)
        \/ ka = kb /\ WindowIndexOf(a) = WindowIndexOf(b) /\ SampleIndexOf(a) < SampleIndexOf(b)

\* C16: the frame create_xy_dataframe returns has one row per (window, sample),
\* ordered by cut in catalog order, then window index, then sample index, with
\* no re-sorting; its columns are cut_id, case, time, the six channels and
\* tool_class, in that order; case is the integer cut_no before the separator
\* of cut_id, and each channel column holds the readings of its own signal.
C16_FrameLayout ==
    df_pc = "returned"
    => /\ xy_df.columns = <<"cut_id", "case", "time", "ae_spindle", "ae_table", "vib_spindle",
                            "vib_table", "smcdc", "smcac", "tool_class">>
       /\ Len(xy_df.rows) = Len(xy_ret.x) * window_size
       /\ \A r \in 1..Len(xy_df.rows) :
            LET fr == xy_df.rows[r]
                w == ((r - 1) \div window_size) + 1
                k == ((r - 1) % window_size) + 1
            IN  /\ fr["case"] \in Range(df_labels)
                /\ \E n \in 0..MaxCutLen : fr["cut_id"] = SubCutId(fr["case"], n)
                /\ fr["cut_id"] = xy_ret.y[w][k][2]
                /\ fr["tool_class"] = xy_ret.y[w][k][1]
                /\ SampleIndexOf(fr) = k - 1
                /\ \A g \in Range(signal_names) :
                      fr[Lower(g)] = [signal |-> g, sample |-> xy_ret.x[w].rows[k]]
       /\ \A r \in 1..(Len(xy_df.rows) - 1) : RowPrecedes(xy_df.rows[r], xy_df.rows[r + 1])

\* two cuts of two or more windows each, so that all three keys of the order vary
C16_Witness ==
    /\ df_pc = "returned"
    /\ Len(df_labels) >= 2
    /\ window_size >= 2
    /\ \E a, b \in 1..Len(xy_df.rows) :
         /\ a + window_size < b
         /\ xy_df.rows[a]["case"] = xy_df.rows[a + window_size]["case"]
         /\ xy_df.rows[a]["case"] # xy_df.rows[b]["case"]
         /\ WindowIndexOf(xy_df.rows[b]) >= 1

\* ================================================== create_labels.tool_state
\* a comparison with a NaN is False
Lt(v, limit) == v # Missing /\ v[1] < limit
Ge(v, limit) == v # Missing /\ v[1] >= limit

\* (a lower limit that still counts 0.2 mm as healthy)
tool_state_inclusive(v) ==
    IF v # Missing /\ v[1] <= HealthyLimit THEN Some(0)
    ELSE IF Lt(v, DegradedLimit) THEN Some(1)
    ELSE IF v = Missing THEN Missing
    ELSE Some(2)

\* lines 213-231; the branch for a null falls through and returns None
tool_state(v) ==
    IF Lt(v, HealthyLimit) THEN Some(0)
    ELSE IF Ge(v, HealthyLimit) /\ Lt(v, DegradedLimit) THEN Some(1)
    ELSE IF v = Missing THEN Missing
    ELSE Some(2)

InitLabel ==
    /\ vb \in {Some(v) : v \in 0..MaxVB} \cup {Missing}
    /\ tool_class = Missing
    /\ label_pc = "start"
    /\ IdleSeg
    /\ IdleScale
    /\ IdleCV
    /\ IdleCtor
    /\ IdleMetrics
    /\ IdleResample

\* line 234: df_labels["VB"].apply(tool_state), for one cut
ApplyToolState ==
    /\ label_pc = "start"
    /\ tool_class' = tool_state(vb)
    /\ label_pc' = "done"
    /\ UNCHANGED <<vb, nonLabelVars>>

NextLabel == ApplyToolState

SpecLabel == InitLabel /\ [][NextLabel]_vars

RecordedCuts == 167

\* the label tables a csv can hold: the column cut_no of rows of distinct cuts,
\* in any order (read_csv numbers the rows 0, 1, ... whatever cut_no says)
LabelTables ==
    {t \in SeqsOf(0..MaxCuts, 1, MaxCuts) : \A a, b \in 1..Len(t) : a # b => t[a] # t[b]}

CtorArgs ==
    [file_exists : BOOLEAN,
     table : {Missing} \cup {Some(t) : t \in LabelTables},
     window_size : (0 - 1)..MaxWindow,
     stride : (0 - 1)..MaxStride,
     cut_drop_list : {Missing} \cup {Some(d) : d \in SUBSET (0..MaxCuts)}]

\* (assertions that leave the stride unchecked)
AssertionFailsButStride(a) == ~a.file_exists \/ a.window_size <= 0

\* lines 164-166: one of the three assertions fails
AssertionFails(a) == ~a.file_exists \/ a.window_size <= 0 \/ a.stride <= 0

\* line 174: DataFrame.drop raises KeyError for a label that is not in the index
DropRaises(table, drop) == drop # Missing /\ ~(drop[1] \subseteq 0..(Len(table) - 1))

InitCtor ==
    /\ ctor_args \in CtorArgs
    /\ ctor_pc = "start"
    /\ ctor_error = None
    /\ has_df_labels = FALSE
    /\ loads = <<>>
    /\ labels_ret = Missing
    /\ IdleSeg
    /\ IdleLabel
    /\ IdleScale
    /\ IdleCV
    /\ IdleMetrics
    /\ IdleResample

\* lines 159-185, the constructor
MillingDataPrep_init ==
    /\ ctor_pc = "start"
    /\ window_size' = ctor_args.window_size
    /\ stride' = ctor_args.stride
    /\ IF AssertionFails(ctor_args)
       THEN /\ ctor_pc' = "raised"
            /\ ctor_error' = "AssertionError"
            /\ UNCHANGED <<df_labels, has_df_labels, loads, signal_names>>
       ELSE IF ctor_args.table # Missing /\ DropRaises(ctor_args.table[1], ctor_args.cut_drop_list)
       THEN /\ ctor_pc' = "raised"
            /\ ctor_error' = "KeyError"
            /\ df_labels' = ctor_args.table[1]
            /\ has_df_labels' = TRUE
            /\ loads' = <<"df_labels">>
            /\ UNCHANGED signal_names
       ELSE /\ ctor_pc' = "constructed"
            /\ UNCHANGED ctor_error
            /\ IF ctor_args.table = Missing
               THEN UNCHANGED <<df_labels, has_df_labels>> /\ loads' = <<"data_file">>
               ELSE /\ df_labels' = DropRows(ctor_args.table[1], ctor_args.cut_drop_list)
                    /\ has_df_labels' = TRUE
                    /\ loads' = <<"df_labels", "data_file">>
            /\ signal_names' = SignalNames
    /\ UNCHANGED <<ctor_args, labels_ret, dfVars, utilVars>>
    /\ UNCHANGED <<op, cda_pc, cut_no, row, cut_array, i, sub_cut_list, sub_cut_id_list,
                   sub_cut_label_list, cda_ret, xy_pc, xy_k, x, y_labels_ids_times, xy_ret,
                   error>>

\* lines 187-236: create_labels returns a table of the metadata fields, cut_no
\* and tool_class; it assigns nothing to the object
CreateLabels ==
    /\ ctor_pc = "constructed"
    /\ op = None
    /\ labels_ret = Missing
    /\ labels_ret' = Some([columns |-> Range(SubSeq(FieldNames, 1, 7)) \cup {"cut_no", "tool_class"},
                           rows |-> RecordedCuts])
    /\ UNCHANGED <<ctor_args, ctor_pc, ctor_error, has_df_labels, loads>>
    /\ UNCHANGED <<segVars, dfVars, utilVars>>

\* line 256: create_data_array reads self.df_labels of an object that was
\* constructed without a label table
CDA_NoCatalog ==
    /\ ctor_pc = "constructed"
    /\ ~has_df_labels
    /\ op = None
    /\ op' = "create_data_array"
    /\ \E c \in 0..MaxCuts : cut_no' = c
    /\ cda_pc' = "raised"
    /\ error' = "AttributeError"
    /\ UNCHANGED <<df_labels, window_size, stride, signal_names, row, cut_array, i,
                   sub_cut_list, sub_cut_id_list, sub_cut_label_list, cda_ret,
                   xy_pc, xy_k, x, y_labels_ids_times, xy_ret>>
    /\ UNCHANGED <<ctorVars, dfVars, utilVars>>

\* line 351: so does create_xy_arrays (and create_xy_dataframe, which calls it)
XY_NoCatalog ==
    /\ ctor_pc = "constructed"
    /\ ~has_df_labels
    /\ op = None
    /\ op' = "create_xy_arrays"
    /\ xy_pc' = "raised"
    /\ error' = "AttributeError"
    /\ UNCHANGED <<df_labels, window_size, stride, signal_names, cda_pc, cut_no, row, cut_array,
                   i, sub_cut_list, sub_cut_id_list, sub_cut_label_list, cda_ret,
                   xy_k, x, y_labels_ids_times, xy_ret>>
    /\ UNCHANGED <<ctorVars, dfVars, utilVars>>

NextCtor == MillingDataPrep_init \/ CreateLabels \/ CDA_NoCatalog \/ XY_NoCatalog

SpecCtor == InitCtor /\ [][NextCtor]_vars

\* ---- properties of the constructor
\* the rows of a table whose cut_no is not in D, in their order
RECURSIVE WithoutCuts(_, _)
WithoutCuts(table, D) ==
    IF table = <<>> THEN <<>>
    ELSE (IF Head(table) \in D THEN <<>> ELSE <<Head(table)>>) \o WithoutCuts(Tail(table), D)

\* the exclusion list as a set of cut numbers (None excludes nothing)
Excluded == IF ctor_args.cut_drop_list = Missing THEN {} ELSE ctor_args.cut_drop_list[1]

\* C12: after construction with a label table and an exclusion list D the
\* catalog holds no row whose cut_no is in D and every other row of the table,
\* in the table's order and with its cut_no, numbered 0..n-1; with
\* cut_drop_list=None it holds every row
C12_ExclusionThenReindex ==
    (ctor_pc = "constructed" /\ ctor_args.table # Missing)
    => /\ has_df_labels
       /\ df_labels = WithoutCuts(ctor_args.table[1], Excluded)
       /\ DOMAIN df_labels = 1..Len(df_labels)

\* C14: an object constructed without a label table has a catalog all the
\* same, derived from the recording, with cut_no, tool_class, window_start and
\* window_end for every cut, so create_data_array and create_xy_arrays work on
\* it as on a supplied table
C14_DerivedCatalog ==
    (ctor_pc = "constructed" /\ ctor_args.table = Missing)
    => /\ has_df_labels
       /\ cda_pc # "raised"
       /\ xy_pc # "raised"
       /\ labels_ret # Missing =>
             {"cut_no", "tool_class", "window_start", "window_end"} \subseteq labels_ret[1].columns

\* C15: a constructor call with a missing data file, a window_size <= 0 or a
\* stride <= 0 fails with the assertion before the label table or the
\* recording is read; the caller gets no object, so no method runs on one
C15_ConstructorPreconditions ==
    (/\ ctor_pc \in {"constructed", "raised"}
     /\ \/ ~ctor_args.file_exists
        \/ ctor_args.window_size <= 0
        \/ ctor_args.stride <= 0)
    => /\ ctor_pc = "raised"
       /\ ctor_error = "AssertionError"
       /\ loads = <<>>
       /\ ~has_df_labels
       /\ op = None
       /\ labels_ret = Missing

\* C15 witness: the constructor failed on a stride of 0 alone, the data file
\* being there, window_size positive and a label table supplied
C15_Witness ==
    /\ ctor_pc = "raised"
    /\ ctor_args.file_exists
    /\ ctor_args.window_size > 0
    /\ ctor_args.stride = 0
    /\ ctor_args.table # Missing
    /\ loads = <<>>

\* ================================================================ scale_data
\* StandardScaler.fit: the mean and the variance of the column, as fractions
StandardFit(col) ==
    LET n == Len(col)
        s1 == SumSeq(col)
        s2 == SumSeq([k \in 1..n |-> col[k] * col[k]])
    IN  [kind |-> "standard", mean |-> Frac(s1, n), var |-> Frac(n * s2 - s1 * s1, n * n)]

\* StandardScaler.transform: (x - mean) / sqrt(var), the divisor being 1 for a
\* column of variance 0
StandardTransform(sc, col) ==
    [k \in 1..Len(col) |->
        LET num == col[k] * sc.mean[2] - sc.mean[1]
        IN  IF sc.var[1] = 0 THEN RealOfFrac(num, sc.mean[2])
            ELSE [sgn |-> Sgn(num),
                  sq |-> Frac(num * num * sc.var[2], sc.mean[2] * sc.mean[2] * sc.var[1])]]

\* MinMaxScaler.fit: the least and the greatest value of the column
MinMaxFit(col) ==
    [kind |-> "minmax",
     data_min |-> CHOOSE m \in Range(col) : \A v \in Range(col) : m <= v,
     data_max |-> CHOOSE m \in Range(col) : \A v \in Range(col) : m >= v]

\* MinMaxScaler.transform: (x - data_min) / (data_max - data_min), the divisor
\* being 1 for a constant column
MinMaxTransform(sc, col) ==
    LET r == IF sc.data_max = sc.data_min THEN 1 ELSE sc.data_max - sc.data_min
    IN  [k \in 1..Len(col) |-> RealOfFrac(col[k] - sc.data_min, r)]

Raw(col) == [k \in 1..Len(col) |-> RealOfInt(col[k])]

\* (a scaler fitted on the train and the test rows together)
scale_data_fit_on_all(x_train, x_test, method) ==
    IF method = "standard"
    THEN LET scaler == StandardFit(x_train \o x_test)
         IN  [x_train |-> StandardTransform(scaler, x_train),
              x_test |-> StandardTransform(scaler, x_test),
              scaler |-> Some(scaler)]
    ELSE IF method = "minmax"
    THEN LET scaler == MinMaxFit(x_train \o x_test)
         IN  [x_train |-> MinMaxTransform(scaler, x_train),
              x_test |-> MinMaxTransform(scaler, x_test),
              scaler |-> Some(scaler)]
    ELSE [x_train |-> Raw(x_train), x_test |-> Raw(x_test), scaler |-> Missing]

\* lines 273-290. The arguments are not modified: transform returns new arrays
\* that are bound to the local names and returned
scale_data(x_train, x_test, method) ==
    IF method = "standard"
    THEN LET scaler == StandardFit(x_train)
         IN  [x_train |-> StandardTransform(scaler, x_train),
              x_test |-> StandardTransform(scaler, x_test),
              scaler |-> Some(scaler)]
    ELSE IF method = "minmax"
    THEN LET scaler == MinMaxFit(x_train)
         IN  [x_train |-> MinMaxTransform(scaler, x_train),
              x_test |-> MinMaxTransform(scaler, x_test),
              scaler |-> Some(scaler)]
    ELSE [x_train |-> Raw(x_train), x_test |-> Raw(x_test), scaler |-> Missing]

ScalerMethods == {"standard", "minmax", None}

InitScale ==
    /\ sc_x_train \in SeqsOf(0..MaxFeature, 1, MaxTrainRows)
    /\ sc_x_test \in SeqsOf(0..MaxFeature, 1, MaxTestRows)
    /\ sc_x_test2 \in SeqsOf(0..MaxFeature, 1, MaxTestRows)
    /\ sc_method \in ScalerMethods
    /\ sc_ret = None
    /\ sc_ret2 = None
    /\ sc_pc = "start"
    /\ IdleSeg
    /\ IdleLabel
    /\ IdleCV
    /\ IdleCtor
    /\ IdleMetrics
    /\ IdleResample

\* scale_data(x_train, x_test, method)
ScaleFirst ==
    /\ sc_pc = "start"
    /\ sc_ret' = scale_data(sc_x_train, sc_x_test, sc_method)
    /\ sc_pc' = "once"
    /\ UNCHANGED <<sc_x_train, sc_x_test, sc_x_test2, sc_method, sc_ret2, nonScaleVars>>

\* scale_data(x_train, x_test2, method): the same train matrix, another test matrix
ScaleSecond ==
    /\ sc_pc = "once"
    /\ sc_ret2' = scale_data(sc_x_train, sc_x_test2, sc_method)
    /\ sc_pc' = "twice"
    /\ UNCHANGED <<sc_x_train, sc_x_test, sc_x_test2, sc_method, sc_ret, nonScaleVars>>

NextScale == ScaleFirst \/ ScaleSecond

SpecScale == InitScale /\ [][NextScale]_vars

\* what (v - shift) / divisor is, for the statistics of a train column
ColMin(col) == CHOOSE m \in Range(col) : \A v \in Range(col) : m <= v
ColMax(col) == CHOOSE m \in Range(col) : \A v \in Range(col) : m >= v
ColSpread(col) == IF ColMax(col) = ColMin(col) THEN 1 ELSE ColMax(col) - ColMin(col)
\* n * n * variance of the column
ColVarN2(col) ==
    Len(col) * SumSeq([k \in 1..Len(col) |-> col[k] * col[k]]) - SumSeq(col) * SumSeq(col)

\* the test value v scaled with the statistics of the train column alone
ScaledByTrain(v, train, method) ==
    IF method = "minmax" THEN RealOfFrac(v - ColMin(train), ColSpread(train))
    ELSE IF ColVarN2(train) = 0 THEN RealOfFrac(Len(train) * v - SumSeq(train), Len(train))
    ELSE RealOverSqrt(Len(train) * v - SumSeq(train), ColVarN2(train))

\* C2: with method standard or minmax, two calls of scale_data on one x_train
\* and two test matrices return the same scaler and the same scaled x_train,
\* and each scaled x_test is x_test transformed with the statistics of x_train
C2_FitOnTrainOnly ==
    (sc_pc = "twice" /\ sc_method \in {"standard", "minmax"})
    => /\ sc_ret.scaler = sc_ret2.scaler
       /\ sc_ret.x_train = sc_ret2.x_train
       /\ \A k \in 1..Len(sc_x_test) :
             sc_ret.x_test[k] = ScaledByTrain(sc_x_test[k], sc_x_train, sc_method)
       /\ \A k \in 1..Len(sc_x_test2) :
             sc_ret2.x_test[k] = ScaledByTrain(sc_x_test2[k], sc_x_train, sc_method)

\* C2 witness: the two test matrices differ, and one of them holds a value
\* outside the range of x_train, so a fit that saw it would differ
C2_Witness ==
    /\ sc_pc = "twice"
    /\ sc_method \in {"standard", "minmax"}
    /\ sc_x_test # sc_x_test2
    /\ \E k \in 1..Len(sc_x_test) : sc_x_test[k] > ColMax(sc_x_train)
    /\ ColMax(sc_x_train) > ColMin(sc_x_train)


\* ===================================================================== kfold_cv
\* ---- the data frame
\* milling_add_y_label_anomaly: y = 1 where tool_class > 1, else 0
AnomalyLabel(c) == IF c > 1 THEN 1 ELSE 0

\* A frame lists its groups (cuts) one after the other, a group being some rows
\* of one tool_class; case is the number of the group, the feature of a row is
\* its position in the frame.
GroupKinds == [tool_class : ToolClasses, rows : 1..2]

RECURSIVE FrameRows(_, _, _)
FrameRows(groups, g, pos) ==
    IF g > Len(groups) THEN <<>>
    ELSE [k \in 1..groups[g].rows |->
            [case |-> g - 1, tool_class |-> groups[g].tool_class,
             y |-> AnomalyLabel(groups[g].tool_class), f |-> pos + k]]
         \o FrameRows(groups, g + 1, pos + groups[g].rows)

KindRank(k) == 2 * k.tool_class + k.rows

\* the frames of up to MaxGroups groups and MaxRows rows; the groups are
\* listed in the order of their kind
Frames ==
    {FrameRows(gs, 1, 0) :
        gs \in {s \in SeqsOf(GroupKinds, 1, MaxGroups) :
                  /\ \A k \in 1..(Len(s) - 1) : KindRank(s[k]) <= KindRank(s[k + 1])
                  /\ SumSeq([k \in 1..Len(s) |-> s[k].rows]) <= MaxRows}}

\* df[col] of a row
Col(r, col) ==
    CASE col = "case" -> r.case
      [] col = "tool_class" -> r.tool_class
      [] col = "y" -> r.y

Column(rows, col) == [k \in 1..Len(rows) |-> Col(rows[k], col)]

\* the numbers of a set, in ascending order
RECURSIVE Ascending(_)
Ascending(S) ==
    IF S = {} THEN <<>>
    ELSE LET m == CHOOSE a \in S : \A b \in S : a <= b
         IN  <<m>> \o Ascending(S \ {m})

\* the first occurrences of the elements of a sequence, in order
RECURSIVE Unique(_)
Unique(s) ==
    IF s = <<>> THEN <<>>
    ELSE LET front == Unique(SubSeq(s, 1, Len(s) - 1))
         IN  IF s[Len(s)] \in Range(front) THEN front ELSE Append(front, s[Len(s)])

Count(s, v) == Cardinality({k \in 1..Len(s) : s[k] = v})

\* ---- StratifiedKFold(n_splits, shuffle=True, random_state=42).split(X, y)
\* The classes are taken in the order of their first appearance and the sorted
\* labels are dealt to the folds in turn, which fixes how many rows of each
\* class a test fold gets; the shuffle decides which rows they are.
ClassStart(classes, ycol, c) ==
    SumSeq([k \in 1..Len(classes) |-> IF k < c THEN Count(ycol, classes[k]) ELSE 0])

\* allocation[c][fld]: the rows of class c that test fold fld gets
Allocation(ycol, k) ==
    LET classes == Unique(ycol)
    IN  [c \in 1..Len(classes) |->
            [fld \in 0..(k - 1) |->
                Cardinality({q \in ClassStart(classes, ycol, c)
                                    ..(ClassStart(classes, ycol, c) + Count(ycol, classes[c]) - 1) :
                               q % k = fld})]]

\* the assignments of rows to test folds the shuffle can produce
TestFolds(ycol, k) ==
    LET classes == Unique(ycol)
        alloc == Allocation(ycol, k)
    IN  {tf \in [1..Len(ycol) -> 0..(k - 1)] :
            \A c \in 1..Len(classes) : \A fld \in 0..(k - 1) :
                Cardinality({r \in 1..Len(ycol) : ycol[r] = classes[c] /\ tf[r] = fld})
                   = alloc[c][fld]}

\* split raises ValueError when n_splits exceeds the number of samples, or the
\* number of members of every class
SplitRaises(ycol, k) ==
    \/ k > Len(ycol)
    \/ \A v \in Range(ycol) : k > Count(ycol, v)

\* the pairs (train_index, test_index) split yields, fold after fold
SplitPairs(tf, k) ==
    [fld \in 1..k |->
        [train |-> Ascending({r \in 1..Len(tf) : tf[r] # fld - 1}),
         test |-> Ascending({r \in 1..Len(tf) : tf[r] = fld - 1})]]

\* ---- under_over_sampler, as kfold_cv uses it
\* RandomOverSampler(sampling_strategy=ratio): a ratio needs two classes; the
\* minority class is brought to int(ratio * majority) rows by appending copies
\* of minority rows drawn with replacement; a ratio that asks for no new row
\* raises ValueError
MajorityCount(ys) == CHOOSE n \in {Count(ys, v) : v \in Range(ys)} :
                        \A v \in Range(ys) : Count(ys, v) <= n

\* the rows RandomOverSampler adds to the minority of two classes
OverSampleNew(ys, ratio) ==
    (MajorityCount(ys) * ratio[1]) \div ratio[2] - (Len(ys) - MajorityCount(ys))

under_over_sampler_raises(ys, method, ratio) ==
    /\ method = "random_over"
    /\ \/ Cardinality(Range(ys)) # 2
       \/ OverSampleNew(ys, ratio) <= 0

\* the data sets under_over_sampler can return (the argument is returned as
\* it is for the method None and for a method name that is not known)
under_over_sampler(xs, ys, method, ratio) ==
    IF method = "random_over" /\ Cardinality(Range(ys)) = 2
    THEN LET minority == {r \in 1..Len(ys) : Count(ys, ys[r]) < MajorityCount(ys)}
         IN  {[x |-> xs \o [k \in 1..Len(pick) |-> xs[pick[k]]],
               y |-> ys \o [k \in 1..Len(pick) |-> ys[pick[k]]]] :
                 pick \in [1..OverSampleNew(ys, ratio) -> minority]}
    ELSE {[x |-> xs, y |-> ys]}

\* ---- calculate_scores
ScoreKeys == {"n_correct", "n_thresholds", "prauc_result", "rocauc_result", "precision_result",
              "recall_result", "f1_result", "precisions", "recalls", "pr_thresholds",
              "fpr", "tpr", "roc_thresholds", "y_scores", "accuracy_result"}

\* the metrics are those of two classes 0 and 1: the curves and roc_auc_score
\* raise ValueError on other labels, and a classifier fitted on one class has
\* no score for the positive class
calculate_scores_raises(fitted, x_test, y_test) ==
    \/ Range(y_test) # {0, 1}
    \/ Cardinality(Range(fitted.y)) < 2

\* lines 151-191: every value is a function of the fitted classifier and of the
\* test data; a value is kept as the metric's name with what it was computed from
calculate_scores(fitted, x_test, y_test) ==
    [key \in ScoreKeys |-> [metric |-> key, fitted |-> fitted, x_test |-> x_test, y_test |-> y_test]]


\* ---- kfold_cv
\* line 65: the grouping column is given and is not the object y_label_col is
GroupBranch == stratification_grouping_col # None /\ ~grouping_is_label_object

\* line 66: df[[stratification_grouping_col, y_label_col]].drop_duplicates()
DfStrat ==
    Unique([k \in 1..Len(df) |->
              [grp |-> Col(df[k], stratification_grouping_col), lbl |-> Col(df[k], y_label_col)]])

\* lines 73 and 115: the labels handed to split are the column 'y', whatever
\* y_label_col names
SplitLabels ==
    IF GroupBranch
    THEN [k \in 1..Len(DfStrat) |-> DfStrat[k].lbl]
    ELSE Column(df, "y")

\* line 73: df_strat has no column 'y' unless 'y' is the target; selecting
\* the target twice gives split a label matrix of two columns
SplitError ==
    IF GroupBranch /\ y_label_col # "y" THEN "KeyError"
    ELSE IF GroupBranch /\ stratification_grouping_col = y_label_col THEN "ValueError"
    ELSE IF SplitRaises(SplitLabels, n_splits) THEN "ValueError"
    ELSE None

\* line 77: the rows of df whose group is among train_strat_vals
TrainRowsGroup(train_vals) ==
    Ascending({r \in 1..Len(df) : Col(df[r], stratification_grouping_col) \in train_vals})

\* line 81: the rows of df whose group is among train_strat_vals, again
TestRowsGroup(train_vals, test_vals) ==
    Ascending({r \in 1..Len(df) : Col(df[r], stratification_grouping_col) \in train_vals})

\* lines 74-83 and 116-123: the partition of fold k and its matrices
FoldData(k) ==
    LET train_vals == {DfStrat[j].grp : j \in Range(splits[k].train)}
        test_vals == {DfStrat[j].grp : j \in Range(splits[k].test)}
        train_rows == IF branch = "group" THEN TrainRowsGroup(train_vals) ELSE splits[k].train
        test_rows == IF branch = "group" THEN TestRowsGroup(train_vals, test_vals)
                     ELSE splits[k].test
    IN  [train_rows |-> train_rows,
         test_rows |-> test_rows,
         x_train |-> [j \in 1..Len(train_rows) |-> df[train_rows[j]].f],
         y_train |-> [j \in 1..Len(train_rows) |-> Col(df[train_rows[j]], y_label_col)],
         x_test |-> [j \in 1..Len(test_rows) |-> df[test_rows[j]].f],
         y_test |-> [j \in 1..Len(test_rows) |-> Col(df[test_rows[j]], y_label_col)]]

\* lines 86 and 126: scale_data(x_train, x_test, scaler_method) is called as a
\* statement; it leaves its arguments as they are and what it returns is bound
\* to no name, so x_train and x_test stay the arrays they were
ConditionedForFit(d) == [x_train |-> d.x_train, x_test |-> d.x_test]

\* lines 94 and 134: every fold fits clone_clf, the clone made before the loop
FoldClassifier(ests) == clone_clf

\* lines 100-106 and 140-146
AppendScores(lists, ind) ==
    [precisions_list |-> Append(lists.precisions_list, ind["precisions"]),
     recalls_list |-> Append(lists.recalls_list, ind["recalls"]),
     fpr_list |-> Append(lists.fpr_list, ind["fpr"]),
     tpr_list |-> Append(lists.tpr_list, ind["tpr"]),
     prauc_list |-> Append(lists.prauc_list, ind["prauc_result"]),
     rocauc_list |-> Append(lists.rocauc_list, ind["rocauc_result"]),
     f1_list |-> Append(lists.f1_list, ind["f1_result"])]

\* lines 148-160
ResultDict(lists) ==
    [precisions |-> lists.precisions_list, recalls |-> lists.recalls_list,
     fpr |-> lists.fpr_list, tpr |-> lists.tpr_list,
     prauc |-> lists.prauc_list, rocauc |-> lists.rocauc_list, f1 |-> lists.f1_list]

Ratios == {<<1, 2>>, <<1, 1>>}

\* the calls: every conditioning on the default columns, and every choice of
\* columns without conditioning
InitCV ==
    /\ df \in Frames
    /\ n_splits \in 2..MaxSplits
    /\ \/ /\ scaler_method \in {None, "standard"}
          /\ \/ uo_method = None /\ imbalance_ratio = <<1, 1>>
             \/ uo_method = "random_over" /\ imbalance_ratio \in Ratios
          /\ y_label_col = "y"
          /\ stratification_grouping_col \in {None, "case"}
          /\ grouping_is_label_object = FALSE
       \/ /\ scaler_method = None
          /\ uo_method = None
          /\ imbalance_ratio = <<1, 1>>
          /\ y_label_col \in {"y", "tool_class"}
          /\ \/ stratification_grouping_col \in {None, "case"} /\ grouping_is_label_object = FALSE
             \/ stratification_grouping_col = y_label_col /\ grouping_is_label_object \in BOOLEAN
    /\ estimators = <<Missing>>
    /\ clone_clf = 0
    /\ cv_pc = "start"
    /\ branch = None
    /\ splits = <<>>
    /\ fold = 0
    /\ score_lists = [precisions_list |-> <<>>, recalls_list |-> <<>>, fpr_list |-> <<>>,
                      tpr_list |-> <<>>, prauc_list |-> <<>>, rocauc_list |-> <<>>,
                      f1_list |-> <<>>]
    /\ fold_log = <<>>
    /\ result_dict = <<>>
    /\ cv_error = None
    /\ IdleSeg
    /\ IdleLabel
    /\ IdleScale
    /\ IdleCtor
    /\ IdleMetrics
    /\ IdleResample

\* kfold_cv has no try statement: an exception raised inside a call it makes
\* reaches the caller as the library raised it, and the notes kfold_cv adds to
\* it (a fold index, the groups of the fold) are none
LibraryError(t, f) == [type |-> t, raised_by |-> f, notes |-> <<>>]

cvInputs == <<df, uo_method, scaler_method, imbalance_ratio, stratification_grouping_col,
              grouping_is_label_object, y_label_col, n_splits>>

\* lines 56-73 and 110-115: the branch, the clone of the prototype and the split
KFoldEnter ==
    /\ cv_pc = "start"
    /\ branch' = IF GroupBranch THEN "group" ELSE "row"
    /\ estimators' = Append(estimators, Missing)
    /\ clone_clf' = Len(estimators) + 1
    /\ IF SplitError # None
       THEN /\ cv_pc' = "raised"
            /\ cv_error' = LibraryError(SplitError, "split")
            /\ UNCHANGED splits
       ELSE /\ cv_pc' = "loop"
            /\ \E tf \in TestFolds(SplitLabels, n_splits) : splits' = SplitPairs(tf, n_splits)
            /\ UNCHANGED cv_error
    /\ UNCHANGED <<cvInputs, fold, score_lists, fold_log, result_dict>>
    /\ UNCHANGED nonCVVars

\* one pass of the loop body, lines 74-106 and 116-146
KFoldIteration ==
    /\ cv_pc = "loop"
    /\ fold < Len(splits)
    /\ LET d == FoldData(fold + 1)
           c == ConditionedForFit(d)
           clf == FoldClassifier(estimators)
       IN  /\ ~under_over_sampler_raises(d.y_train, uo_method, imbalance_ratio)
           /\ \E res \in under_over_sampler(c.x_train, d.y_train, uo_method, imbalance_ratio) :
                 LET fitted == [x |-> res.x, y |-> res.y]
                     before == IF clf <= Len(estimators) THEN estimators[clf] ELSE Missing
                     ests == IF clf <= Len(estimators) THEN estimators
                             ELSE Append(estimators, Missing)
                     entry == [split |-> splits[fold + 1],
                               train_rows |-> d.train_rows, test_rows |-> d.test_rows,
                               x_train |-> d.x_train, y_train |-> d.y_train,
                               clf |-> clf, fitted_before |-> before,
                               fit_x |-> res.x, fit_y |-> res.y,
                               x_test |-> c.x_test, y_test |-> d.y_test]
                 IN  /\ estimators' = [ests EXCEPT ![clf] = Some(fitted)]
                     /\ fold_log' = Append(fold_log, entry)
                     /\ IF calculate_scores_raises(fitted, c.x_test, d.y_test)
                        THEN /\ cv_pc' = "raised"
                             /\ cv_error' = LibraryError("ValueError", "calculate_scores")
                             /\ UNCHANGED <<fold, score_lists>>
                        ELSE /\ score_lists' =
                                  AppendScores(score_lists,
                                               calculate_scores(fitted, c.x_test, d.y_test))
                             /\ fold' = fold + 1
                             /\ UNCHANGED <<cv_pc, cv_error>>
    /\ UNCHANGED <<cvInputs, clone_clf, branch, splits, result_dict>>
    /\ UNCHANGED nonCVVars

\* lines 89 and 129: the resampler raises and the exception leaves kfold_cv
KFoldResampleRaises ==
    /\ cv_pc = "loop"
    /\ fold < Len(splits)
    /\ under_over_sampler_raises(FoldData(fold + 1).y_train, uo_method, imbalance_ratio)
    /\ cv_pc' = "raised"
    /\ cv_error' = LibraryError("ValueError", "under_over_sampler")
    /\ UNCHANGED <<cvInputs, estimators, clone_clf, branch, splits, fold, score_lists,
                   fold_log, result_dict>>
    /\ UNCHANGED nonCVVars

\* lines 148-160: the lists become arrays and the dictionary is returned
KFoldReturn ==
    /\ cv_pc = "loop"
    /\ fold = Len(splits)
    /\ result_dict' = ResultDict(score_lists)
    /\ cv_pc' = "returned"
    /\ UNCHANGED <<cvInputs, estimators, clone_clf, branch, splits, fold, score_lists,
                   fold_log, cv_error>>
    /\ UNCHANGED nonCVVars

NextCV == KFoldEnter \/ KFoldIteration \/ KFoldResampleRaises \/ KFoldReturn

SpecCV == InitCV /\ [][NextCV]_vars

\* ---- properties of kfold_cv
\* the values of the grouping column among some rows of df
GroupsOf(rows) == {Col(df[r], stratification_grouping_col) : r \in Range(rows)}

\* a grouping column is named and its name is not the target's
GroupingRequested ==
    stratification_grouping_col # None /\ stratification_grouping_col # y_label_col

\* C1: when a group column is supplied and differs from the target column, no
\* value of the group column occurs both among the rows a fold trains on and
\* among the rows it is scored on
C1_GroupIsolation ==
    GroupingRequested
    => \A k \in 1..Len(fold_log) :
          GroupsOf(fold_log[k].train_rows) \cap GroupsOf(fold_log[k].test_rows) = {}

\* the feature column of some rows of df, as it is before any conditioning
FeaturesOf(rows) == [j \in 1..Len(rows) |-> df[rows[j]].f]

\* C3: in every fold the matrix handed to fit is the train partition scaled with
\* scaler_method (fitted on the train partition) and then resampled, and the
\* test partition has the rows of the split, none added
C3_ScaleResampleFit ==
    \A k \in 1..Len(fold_log) :
        LET e == fold_log[k]
            scaled == scale_data(FeaturesOf(e.train_rows), FeaturesOf(e.test_rows),
                                 scaler_method)
        IN  /\ [x |-> Raw(e.fit_x), y |-> e.fit_y]
                  \in under_over_sampler(scaled.x_train, e.y_train, uo_method, imbalance_ratio)
            /\ Len(e.x_test) = Len(e.test_rows)
            /\ Len(e.y_test) = Len(e.test_rows)

\* C4: the instance fitted in a fold is fitted in no other fold, it holds no
\* fitted state when its fold starts fitting, and the prototype is never fitted
C4_FreshClonePerFold ==
    /\ \A m, n \in 1..Len(fold_log) : m # n => fold_log[m].clf # fold_log[n].clf
    /\ \A m \in 1..Len(fold_log) : fold_log[m].fitted_before = Missing
    /\ estimators[1] = Missing

\* the labels a split stratified by the target column works on
TargetLabels ==
    IF GroupingRequested
    THEN [k \in 1..Len(DfStrat) |-> DfStrat[k].lbl]
    ELSE Column(df, y_label_col)

\* C5: for any target column name the folds are stratified by the column
\* y_label_col names (no column is missed, and the split is one a split over
\* the target's labels yields), and the group branch is taken exactly when a
\* group column is supplied whose name differs from the target's
C5_StratifyByTarget ==
    /\ cv_pc # "start" => (branch = "group" <=> GroupingRequested)
    /\ cv_pc = "raised" => cv_error.type # "KeyError"
    /\ (cv_pc = "loop" /\ branch = IF GroupingRequested THEN "group" ELSE "row")
       => \E tf \in TestFolds(TargetLabels, n_splits) : splits = SplitPairs(tf, n_splits)

\* what calculate_scores computed in the fold logged at position m
FoldScores(m) ==
    calculate_scores([x |-> fold_log[m].fit_x, y |-> fold_log[m].fit_y],
                     fold_log[m].x_test, fold_log[m].y_test)

\* the per-fold metrics: every value calculate_scores computes but the scores
\* of the single test rows
PerFoldMetrics == ScoreKeys \ {"y_scores"}

\* C6: when kfold_cv returns, every per-fold metric has a key of the
\* result under which lie n_splits entries, entry m being what calculate_scores
\* computed for that metric in the m-th fold of the split
C6_EveryMetricReturned ==
    cv_pc = "returned"
    => \A metric \in PerFoldMetrics :
          \E key \in DOMAIN result_dict :
             /\ Len(result_dict[key]) = n_splits
             /\ \A m \in 1..n_splits :
                   /\ fold_log[m].split = splits[m]
                   /\ result_dict[key][m] = FoldScores(m)[metric]


\* C19: when a step of a fold fails inside kfold_cv, the run aborts at that
\* fold: no later fold is run, no result dictionary or partial aggregation is
\* returned, and the failure reported identifies which fold or group failed.
C19_FailFastNamesFold ==
    (cv_pc = "raised" /\ cv_error.raised_by \in {"under_over_sampler", "calculate_scores"})
    => /\ result_dict = <<>>
       /\ Len(fold_log) \in {fold, fold + 1}
       /\ fold < Len(splits)
       /\ \E n \in Range(cv_error.notes) :
             \/ n = [fold |-> fold + 1]
             \/ n = [test_group |-> GroupsOf(FoldData(fold + 1).test_rows)]

\* ============== collate_scores_binary_classification and get_model_metrics_df
\* A fold's score dictionary, as far as the worst fold goes: its PR-AUC (in
\* hundredths) and, when the key is there, its unique_grouping entry. The
\* other keys are collated, and their arrays aggregated, each on its own in
\* the same way.
ScoreDict(v, g) == [prauc_result |-> v, unique_grouping |-> g]

\* the orders in which n folds can hold the test groups 1..n
GroupOrders(n) == {p \in [1..n -> 1..n] : \A a, b \in 1..n : a # b => p[a] # p[b]}

\* five folds with PR-AUC 0.9, 0.5, 0.8, 0.95, 0.7
ExampleScores == <<90, 50, 80, 95, 70>>

ScoreLists ==
    UNION {{[k \in 1..Len(v) |->
                ScoreDict(v[k], IF keyed THEN Some([unique_test_group |-> p[k]]) ELSE Missing)] :
              p \in GroupOrders(Len(v)), keyed \in BOOLEAN} :
           v \in SeqsOf(0..MaxScore, 0, MaxFolds) \cup {ExampleScores}}

InitMetrics ==
    /\ scores_list \in ScoreLists
    /\ model_metrics_dict = None
    /\ df_m = None
    /\ mm_pc = "start"
    /\ mm_error = None
    /\ IdleSeg
    /\ IdleLabel
    /\ IdleScale
    /\ IdleCV
    /\ IdleCtor
    /\ IdleResample

\* utils.py lines 223-270: the lists are filled fold by fold, in the order of
\* scores_list; a dictionary without the key unique_grouping raises KeyError
CollateScores ==
    /\ mm_pc = "start"
    /\ IF \E k \in 1..Len(scores_list) : scores_list[k].unique_grouping = Missing
       THEN /\ mm_pc' = "raised"
            /\ mm_error' = "KeyError"
            /\ UNCHANGED model_metrics_dict
       ELSE /\ mm_pc' = "collated"
            /\ model_metrics_dict' =
                 [prauc_array |-> [k \in 1..Len(scores_list) |-> scores_list[k].prauc_result],
                  unique_grouping |-> [k \in 1..Len(scores_list) |-> scores_list[k].unique_grouping[1]]]
            /\ UNCHANGED mm_error
    /\ UNCHANGED <<scores_list, df_m>>
    /\ UNCHANGED nonMetricVars

\* np.min and np.max
RECURSIVE NpMin(_)
NpMin(a) == IF Len(a) = 1 THEN a[1] ELSE Min(a[1], NpMin(Tail(a)))
RECURSIVE NpMax(_)
NpMax(a) == IF Len(a) = 1 THEN a[1] ELSE Max(a[1], NpMax(Tail(a)))

\* a scan that lets a later equal value replace the one found
RECURSIVE ArgMinLastFrom(_, _, _)
ArgMinLastFrom(a, k, best) ==
    IF k > Len(a) THEN best
    ELSE ArgMinLastFrom(a, k + 1, IF a[k] <= a[best] THEN k ELSE best)

\* np.argmin: the scan keeps the first position of the smallest value
RECURSIVE ArgMinFrom(_, _, _)
ArgMinFrom(a, k, best) ==
    IF k > Len(a) THEN best
    ELSE ArgMinFrom(a, k + 1, IF a[k] < a[best] THEN k ELSE best)

\* the 0-based index np.argmin returns
NpArgMin(a) == ArgMinFrom(a, 2, 1) - 1

\* utils.py lines 293-338: np.min of an empty array raises ValueError; the
\* worst group is read at the index np.argmin returns. prauc_avg is kept as
\* the sum over the count.
GetModelMetricsDf ==
    /\ mm_pc = "collated"
    /\ LET a == model_metrics_dict.prauc_array
       IN  IF a = <<>>
           THEN /\ mm_pc' = "raised"
                /\ mm_error' = "ValueError"
                /\ UNCHANGED df_m
           ELSE /\ mm_pc' = "returned"
                /\ df_m' = [prauc_min |-> NpMin(a),
                            prauc_max |-> NpMax(a),
                            prauc_avg |-> <<SumSeq(a), Len(a)>>,
                            test_strat_group_worst_prauc |->
                                model_metrics_dict.unique_grouping[NpArgMin(a) + 1].unique_test_group]
                /\ UNCHANGED mm_error
    /\ UNCHANGED <<scores_list, model_metrics_dict>>
    /\ UNCHANGED nonMetricVars

NextMetrics == CollateScores \/ GetModelMetricsDf

SpecMetrics == InitMetrics /\ [][NextMetrics]_vars

\* the fold (1-based) with the smallest PR-AUC, the earliest of them on a tie
WorstFold ==
    CHOOSE m \in 1..Len(scores_list) :
        /\ \A k \in 1..Len(scores_list) : scores_list[m].prauc_result <= scores_list[k].prauc_result
        /\ \A k \in 1..(m - 1) : scores_list[k].prauc_result > scores_list[m].prauc_result

\* C17: get_model_metrics_df reports as the worst group the test group of the
\* fold with the minimal PR-AUC, the lowest fold index winning a tie, and the
\* prauc_min it reports is that fold's PR-AUC; for the PR-AUC values
\* 0.9, 0.5, 0.8, 0.95, 0.7 it reports 0.5 and the test group of fold index 1.
C17_WorstFold ==
    mm_pc = "returned"
    => /\ df_m.prauc_min = scores_list[WorstFold].prauc_result
       /\ df_m.test_strat_group_worst_prauc =
             scores_list[WorstFold].unique_grouping[1].unique_test_group
       /\ [k \in 1..Len(scores_list) |-> scores_list[k].prauc_result] = ExampleScores
          => /\ df_m.prauc_min = 50
             /\ df_m.test_strat_group_worst_prauc = scores_list[2].unique_grouping[1].unique_test_group

\* C17 witness: the minimum is shared by the second and the third fold
C17_Witness ==
    /\ mm_pc = "returned"
    /\ Len(scores_list) = 3
    /\ scores_list[2].prauc_result = scores_list[3].prauc_result
    /\ scores_list[1].prauc_result > scores_list[2].prauc_result
    /\ df_m.test_strat_group_worst_prauc = scores_list[2].unique_grouping[1].unique_test_group


\* ================================================ under_over_sampler on its own
\* utils.py lines 56-116: the method names and the samplers they select
RandomOverMethods == {"random_over"}
SyntheticMethods == {"smote", "borderline_smote", "kmeans_smote", "svm_smote", "adasyn"}
UnderMethods == {"random_under", "random_under_bootstrap"}
HybridMethods == {"smote_enn", "smote_tomek"}
OverStrategyMethods == RandomOverMethods \cup SyntheticMethods \cup HybridMethods
SamplerMethods == OverStrategyMethods \cup UnderMethods

MinorityCount(ys) == Len(ys) - MajorityCount(ys)

\* sampling_strategy=ratio of an under-sampler: the majority class is cut to
\* int(minority / ratio) rows
UnderSampleKept(ys, ratio) == (MinorityCount(ys) * ratio[2]) \div ratio[1]

\* fit_resample raises ValueError: a float strategy must lie in (0, 1] and
\* needs exactly two classes, an over-sampler must have rows to add, an
\* under-sampler must not be asked for more rows than the majority has, and
\* SMOTE needs more than k_neighbors minority rows for its neighbour query
SamplerRaises(ys, method, ratio) ==
    /\ method \in SamplerMethods
    /\ \/ ratio[1] > ratio[2]
       \/ Cardinality(Range(ys)) # 2
       \/ method \in OverStrategyMethods /\ OverSampleNew(ys, ratio) <= 0
       \/ method \in UnderMethods /\ UnderSampleKept(ys, ratio) > MajorityCount(ys)
       \/ method \in (SyntheticMethods \cup HybridMethods) /\ MinorityCount(ys) <= KNeighbors

\* Counter(y_resampled) for two classes: an over-sampler brings the minority
\* to int(ratio * majority) rows, an under-sampler cuts the majority, and a
\* hybrid sampler over-samples and then removes the rows its cleaning rule
\* picks, a number that depends on where the rows lie (Tomek links go in
\* pairs, one row of each class)
ResampledCounts(ys, method, ratio) ==
    LET target == (MajorityCount(ys) * ratio[1]) \div ratio[2]
    IN  IF method \in RandomOverMethods \cup SyntheticMethods
        THEN {[minority |-> target, majority |-> MajorityCount(ys)]}
        ELSE IF method \in UnderMethods
        THEN {[minority |-> MinorityCount(ys), majority |-> UnderSampleKept(ys, ratio)]}
        ELSE IF method = "smote_tomek"
        THEN {[minority |-> target - a, majority |-> MajorityCount(ys) - a] : a \in 0..MaxCleaned}
        ELSE IF method = "smote_enn"
        THEN {[minority |-> target - a, majority |-> MajorityCount(ys) - b] :
                a \in 0..MaxCleaned, b \in 0..MaxCleaned}
        ELSE {[minority |-> MinorityCount(ys), majority |-> MajorityCount(ys)]}

\* the requested ratios, as fractions
SamplerRatios == {<<1, 2>>, <<3, 4>>, <<1, 1>>, <<3, 2>>}

InitResample ==
    /\ \E a \in 1..MaxClassRows, b \in 0..MaxClassRows, c \in 0..1 :
         rs_y = Repeat(0, a) \o Repeat(1, b) \o Repeat(2, c)
    /\ rs_method \in SamplerMethods \cup {None, "other"}
    /\ rs_ratio \in SamplerRatios
    /\ rs_ret = None
    /\ rs_pc = "start"
    /\ rs_error = None
    /\ IdleSeg
    /\ IdleLabel
    /\ IdleScale
    /\ IdleCV
    /\ IdleCtor
    /\ IdleMetrics

\* utils.py lines 47-119, the call returns
UnderOverSampler ==
    /\ rs_pc = "start"
    /\ ~SamplerRaises(rs_y, rs_method, rs_ratio)
    /\ rs_ret' \in (IF rs_method \in SamplerMethods
                    THEN ResampledCounts(rs_y, rs_method, rs_ratio)
                    ELSE {[minority |-> MinorityCount(rs_y), majority |-> MajorityCount(rs_y)]})
    /\ rs_pc' = "returned"
    /\ UNCHANGED <<rs_y, rs_method, rs_ratio, rs_error>>
    /\ UNCHANGED nonResampleVars

\* utils.py lines 47-119, fit_resample raises
UnderOverSamplerRaises ==
    /\ rs_pc = "start"
    /\ SamplerRaises(rs_y, rs_method, rs_ratio)
    /\ rs_pc' = "raised"
    /\ rs_error' = "ValueError"
    /\ UNCHANGED <<rs_y, rs_method, rs_ratio, rs_ret>>
    /\ UNCHANGED nonResampleVars

NextResample == UnderOverSampler \/ UnderOverSamplerRaises

SpecResample == InitResample /\ [][NextResample]_vars

\* C18: for every resampling method other than none and every requested
\* ratio r, the data set under_over_sampler returns has its minority-class
\* count divided by its majority-class count equal to r.
C18_RatioReached ==
    (rs_pc = "returned" /\ rs_method \in SamplerMethods)
    => rs_ret.minority * rs_ratio[2] = rs_ret.majority * rs_ratio[1]

====
